---------------------------- MODULE Spec2Model ----------------------------
(***************************************************************************)
(* Model of the examiner feedback dashboard (src/index..jsx): the score    *)
(* normalizer parseScore, the record normalizer and fetch handling of the  *)
(* mount effect, the date/station filter, and the derived views (stats,    *)
(* distributionData, radarData, feedbackQ9, feedbackQ10).                  *)
(*                                                                         *)
(* JavaScript values are records [t, n, s]: t is the type tag, n the       *)
(* numeric payload and s the text payload (a sequence of one-character     *)
(* strings).  A number x is stored as the integer x * Scale, so decimal    *)
(* fractions of up to MaxStrLen digits are exact; arithmetic is exact      *)
(* decimal arithmetic (binary floating-point rounding error is not         *)
(* modelled).                                                              *)
(***************************************************************************)
EXTENDS Integers, Sequences, FiniteSets, TLC

VARIABLES
    data,           \* useState([])      : the normalized snapshot
    loading,        \* useState(true)
    error,          \* useState(null)    : "null" or the message
    filterDate,     \* useState('All')
    filterStation,  \* useState('All')   : text (sequence of characters)
    pc,             \* position of the mount effect / fetch promise chain
    fetches,        \* number of fetch(GOOGLE_SCRIPT_URL) calls made
    response,       \* how the fetch settled (the parsed body when it did)
    scoreIn,        \* argument of a parseScore call
    scoreOut,       \* its return value
    scorePc         \* "call" before the call, "done" after

vars == <<data, loading, error, filterDate, filterStation, pc, fetches,
          response, scoreIn, scoreOut, scorePc>>

dashVars == <<data, loading, error, filterDate, filterStation, pc, fetches,
              response>>
scoreVars == <<scoreIn, scoreOut, scorePc>>

-----------------------------------------------------------------------------
(* Bounds *)

MaxRecords == 2

MaxStrLen == 3

-----------------------------------------------------------------------------
(* JavaScript values *)

RECURSIVE Pow10(_)
Pow10(k) == IF k = 0 THEN 1 ELSE 10 * Pow10(k - 1)

\* one unit of the fixed-point representation of numbers
Scale == Pow10(MaxStrLen)

Undef == [t |-> "undefined", n |-> 0, s |-> <<>>]
Null == [t |-> "null", n |-> 0, s |-> <<>>]
NaN == [t |-> "NaN", n |-> 0, s |-> <<>>]
Bool(b) == [t |-> "boolean", n |-> IF b THEN 1 ELSE 0, s |-> <<>>]
\* the number whose value is x / Scale
Num(x) == [t |-> "number", n |-> x, s |-> <<>>]
\* the integer k as a number
Int_(k) == Num(k * Scale)
\* the number k / 2
Half(k) == Num(k * (Scale \div 2))
Str(chars) == [t |-> "string", n |-> 0, s |-> chars]

\* typeof v === 'number' (NaN is a number too)
IsNumber(v) == v.t \in {"number", "NaN"}

\* !!v
Truthy(v) ==
    CASE v.t = "number" -> v.n # 0
      [] v.t = "string" -> v.s # <<>>
      [] v.t = "boolean" -> v.n = 1
      [] OTHER -> FALSE

\* a === b
StrictEq(a, b) == a.t # "NaN" /\ b.t # "NaN" /\ a = b

DigitChars == <<"0", "1", "2", "3", "4", "5", "6", "7", "8", "9">>
Digits == {DigitChars[i] : i \in 1..10}
DigitVal(c) == (CHOOSE i \in 1..10 : DigitChars[i] = c) - 1

\* the decimal digits of the natural number k
RECURSIVE NatToChars(_)
NatToChars(k) ==
    IF k < 10 THEN <<DigitChars[k + 1]>>
    ELSE NatToChars(k \div 10) \o <<DigitChars[(k % 10) + 1]>>

\* the digits of the fraction f / Pow10(width), trailing zeros dropped
RECURSIVE FracToChars(_, _)
FracToChars(f, width) ==
    IF f = 0 \/ width = 0 THEN <<>>
    ELSE <<DigitChars[(f \div Pow10(width - 1)) + 1]>>
         \o FracToChars(f % Pow10(width - 1), width - 1)

Abs(x) == IF x < 0 THEN -x ELSE x

\* String(v)
StringOf(v) ==
    CASE v.t = "string" -> v.s
      [] v.t = "number" ->
            (IF v.n < 0 THEN <<"-">> ELSE <<>>)
            \o NatToChars(Abs(v.n) \div Scale)
            \o (IF Abs(v.n) % Scale = 0 THEN <<>>
                ELSE <<".">> \o FracToChars(Abs(v.n) % Scale, MaxStrLen))
      [] v.t = "NaN" -> <<"N", "a", "N">>
      [] v.t = "null" -> <<"n", "u", "l", "l">>
      [] v.t = "boolean" -> IF v.n = 1 THEN <<"t", "r", "u", "e">>
                            ELSE <<"f", "a", "l", "s", "e">>
      [] OTHER -> <<"u", "n", "d", "e", "f", "i", "n", "e", "d">>

\* the longest prefix of s made of digits
RECURSIVE DigitPrefix(_)
DigitPrefix(s) ==
    IF s = <<>> \/ Head(s) \notin Digits THEN <<>>
    ELSE <<Head(s)>> \o DigitPrefix(Tail(s))

\* the natural number written by the digit sequence ds (0 for none)
RECURSIVE DigitsToNat(_)
DigitsToNat(ds) ==
    IF ds = <<>> THEN 0
    ELSE 10 * DigitsToNat(SubSeq(ds, 1, Len(ds) - 1)) + DigitVal(ds[Len(ds)])

\* the fraction 0.ds in units of 1 / Scale (digits past MaxStrLen are cut)
RECURSIVE FracToNat(_, _)
FracToNat(ds, width) ==
    IF ds = <<>> \/ width = 0 THEN 0
    ELSE DigitVal(Head(ds)) * Pow10(width - 1) + FracToNat(Tail(ds), width - 1)

RECURSIVE TrimLeft(_)
TrimLeft(s) == IF s # <<>> /\ Head(s) = " " THEN TrimLeft(Tail(s)) ELSE s

\* s without a leading sign, and the sign
Unsigned(s) == IF s # <<>> /\ Head(s) \in {"-", "+"} THEN Tail(s) ELSE s
SignOf(s) == IF s # <<>> /\ Head(s) = "-" THEN -1 ELSE 1

\* parseFloat(text): sign, digits, optional point and digits; NaN without a digit
ParseFloat(chars) ==
    LET body == Unsigned(TrimLeft(chars))
        sign == SignOf(TrimLeft(chars))
        ip == DigitPrefix(body)
        rest == SubSeq(body, Len(ip) + 1, Len(body))
        fp == IF rest # <<>> /\ Head(rest) = "." THEN DigitPrefix(Tail(rest))
              ELSE <<>>
    IN  IF ip = <<>> /\ fp = <<>> THEN NaN
        ELSE Num(sign * (DigitsToNat(ip) * Scale + FracToNat(fp, MaxStrLen)))

\* parseInt(v): String(v), then sign and leading digits; NaN without a digit
ParseInt(v) ==
    LET text == TrimLeft(StringOf(v))
        ip == DigitPrefix(Unsigned(text))
    IN  IF ip = <<>> THEN NaN
        ELSE Num(SignOf(text) * DigitsToNat(ip) * Scale)

\* text.replace(/[^0-9.]/g, '')
StripNonNumeric(chars) == SelectSeq(chars, LAMBDA c : c \in Digits \cup {"."})

-----------------------------------------------------------------------------
(* Score Normalizer *)

\* parseScore without the typeof guard: every value goes through the text path
parseScore_NoNumberGuard(val) ==
    IF ~Truthy(val) THEN Int_(0)
    ELSE LET parsed == ParseFloat(StripNonNumeric(StringOf(val)))
         IN  IF parsed.t = "NaN" THEN Int_(0) ELSE parsed

parseScore(val) ==
    IF IsNumber(val) THEN val
    ELSE IF ~Truthy(val) THEN Int_(0)
    ELSE LET parsed == ParseFloat(StripNonNumeric(StringOf(val)))
         IN  IF parsed.t = "NaN" THEN Int_(0) ELSE parsed

-----------------------------------------------------------------------------
(* Raw payloads the endpoint can return *)

All == <<"A", "l", "l">>

\* raw q1..q8 of a response: numbers, numeric-like text, absent, out of range
\* ("#" stands for a non-ASCII character such as U+5206 in "4#")
MixedRow ==
    <<Int_(5), Int_(1), Int_(4), Int_(3), Str(<<"4", "#">>), Undef,
      Half(7), Half(5)>>
TextRow ==
    <<Str(<<"3", "#">>), Int_(5), Int_(3), Str(<<"3", ".", "1", "4", "8">>),
      Str(<<"a", "b", "c">>), Null, Half(7), Half(9)>>
BaseRow == <<Int_(4), Int_(4), Int_(4), Int_(4), Int_(4), Int_(4), Int_(4), Int_(4)>>
OutOfRangeRow ==
    <<Int_(7), Int_(-1), Str(<<>>), Int_(0), Str(<<"4", ".", "5">>),
      Str(<<"1", "0">>), Half(1), Half(11)>>

\* every score zero, absent or unparseable
ZeroRow ==
    <<Int_(0), Undef, Null, Str(<<>>), Str(<<"a">>), Int_(0), Int_(0), Int_(0)>>

\* raw station values: numeric codes, numeric text, free-form labels, zero
RawStations == {Int_(3), Str(<<"3">>), Str(<<"A">>), Int_(0), Str(<<"0">>),
                Str(<<"1", "2">>)}

\* raw (q9, q10) pairs: text, empty text, zero, null, absent
OnlyQ9 == <<Str(<<"o", "k">>), Undef>>
OnlyQ10 == <<Str(<<>>), Str(<<"n", "o">>)>>
NoFeedback == <<Int_(0), Null>>

RawRecord(d, st, ex, row, fb) ==
    [date |-> d, station |-> st, examiner |-> ex, q |-> row,
     q9 |-> fb[1], q10 |-> fb[2]]

\* sample responses: every raw station on one date, a second date, and the
\* score rows with the feedback pairs
RawRecords ==
    {RawRecord("D1", st, "E1", BaseRow, <<Undef, Undef>>) : st \in RawStations}
    \cup {RawRecord("D2", Int_(3), "E1", BaseRow, <<Undef, Undef>>)}
    \cup {RawRecord("D1", Int_(3), "E2", MixedRow, OnlyQ9),
          RawRecord("D1", Int_(3), "E2", MixedRow, OnlyQ10),
          RawRecord("D1", Int_(3), "E2", TextRow, OnlyQ9),
          RawRecord("D1", Int_(3), "E2", TextRow, NoFeedback),
          RawRecord("D2", Int_(3), "E2", OutOfRangeRow, OnlyQ10),
          RawRecord("D1", Int_(3), "E2", OutOfRangeRow, NoFeedback),
          RawRecord("D2", Int_(3), "E2", ZeroRow, NoFeedback)}

\* every list of at most k raw records
RECURSIVE ListsUpTo(_)
ListsUpTo(k) ==
    IF k = 0 THEN {<<>>}
    ELSE LET shorter == ListsUpTo(k - 1)
         IN  shorter \cup {Append(l, r) : l \in {x \in shorter : Len(x) = k - 1},
                                          r \in RawRecords}

RawLists == ListsUpTo(MaxRecords)

\* parsed JSON bodies: {examiner: [...]}, a bare array, and the other shapes
ArrayBody(list) == [shape |-> "array", examiner |-> "none", list |-> list]
ObjectBody(ex, list) == [shape |-> "object", examiner |-> ex, list |-> list]
OtherBody(shape) == [shape |-> shape, examiner |-> "none", list |-> <<>>]

Bodies ==
    {ArrayBody(l) : l \in RawLists}
    \cup {ObjectBody("array", l) : l \in RawLists}
    \cup {ObjectBody(ex, <<>>) : ex \in {"absent", "null", "text"}}
    \cup {OtherBody(sh) : sh \in {"null", "number", "string", "boolean"}}

-----------------------------------------------------------------------------
(* Record Normalizer and body unpacking (the second .then of the effect) *)

QuestionCount == 8
Questions == 1..QuestionCount

\* parseInt(item.station) || item.station
NormalizeStation(st) ==
    LET parsed == ParseInt(st)
    IN  IF Truthy(parsed) THEN parsed ELSE st

\* { ...item, station: ..., q1: parseScore(item.q1), ..., q8: parseScore(item.q8) }
NormalizeRecord(item) ==
    [item EXCEPT !.station = NormalizeStation(item.station),
                 !.q = [i \in Questions |-> parseScore(item.q[i])]]

\* rawList.map(item => ...)
formattedData(list) == [i \in 1..Len(list) |-> NormalizeRecord(list[i])]

Thrown == [threw |-> TRUE, list |-> <<>>]
Returned(list) == [threw |-> FALSE, list |-> list]

\* jsonData.examiner ? jsonData.examiner : (Array.isArray(jsonData) ? jsonData : [])
\* followed by the call of rawList.map: reading .examiner of null throws, and
\* so does .map on a truthy examiner that is no array
rawList(jsonData) ==
    CASE jsonData.shape = "null" -> Thrown
      [] jsonData.shape = "object" /\ jsonData.examiner = "array" ->
            Returned(jsonData.list)
      [] jsonData.shape = "object" /\ jsonData.examiner = "text" -> Thrown
      [] jsonData.shape = "array" -> Returned(jsonData.list)
      [] OTHER -> Returned(<<>>)

-----------------------------------------------------------------------------
(* Component state and the mount effect *)

NoError == "null"
FetchErrorMessage == "fetch-error"

NoResponse == [kind |-> "none", body |-> OtherBody("none")]
Failure(kind) == [kind |-> kind, body |-> OtherBody("none")]
Parsed(body) == [kind |-> "json", body |-> body]

DashInit ==
    /\ data = <<>>
    /\ loading = TRUE
    /\ error = NoError
    /\ filterDate = "All"
    /\ filterStation = All
    /\ pc = "mount"
    /\ fetches = 0
    /\ response = NoResponse

ScoreIdle ==
    /\ scoreIn = Undef
    /\ scoreOut = Undef
    /\ scorePc = "idle"

Init == DashInit /\ ScoreIdle

\* useEffect(() => { setLoading(true); fetch(GOOGLE_SCRIPT_URL) ... }, [])
MountEffect ==
    /\ pc = "mount"
    /\ loading' = TRUE
    /\ fetches' = fetches + 1
    /\ pc' = "pending"
    /\ UNCHANGED <<data, error, filterDate, filterStation, response>>
    /\ UNCHANGED scoreVars

\* the catch handler without its setLoading(false)
CatchHandler_KeepsLoading(how) ==
    /\ error' = FetchErrorMessage
    /\ pc' = "failed"
    /\ response' = how
    /\ UNCHANGED <<data, loading, filterDate, filterStation, fetches>>
    /\ UNCHANGED scoreVars

\* .catch(err => { setError(...); setLoading(false); })
CatchHandler(how) ==
    /\ error' = FetchErrorMessage
    /\ loading' = FALSE
    /\ pc' = "failed"
    /\ response' = how
    /\ UNCHANGED <<data, filterDate, filterStation, fetches>>
    /\ UNCHANGED scoreVars

\* the fetch promise rejects (network failure)
FetchRejects ==
    /\ pc = "pending"
    /\ CatchHandler(Failure("rejected"))

\* if (!response.ok) throw new Error(...)
ResponseNotOk ==
    /\ pc = "pending"
    /\ CatchHandler(Failure("not-ok"))

\* response.json() rejects: the body is no JSON
JsonParseFails ==
    /\ pc = "pending"
    /\ CatchHandler(Failure("bad-json"))

\* .then(jsonData => { ... }) throws before setData: control passes to .catch
UnpackThrows ==
    /\ pc = "pending"
    /\ \E body \in Bodies :
        /\ rawList(body).threw
        /\ CatchHandler(Parsed(body))

\* the success handler without its setLoading(false)
FetchResolves_KeepsLoading ==
    /\ pc = "pending"
    /\ \E body \in Bodies :
        /\ ~rawList(body).threw
        /\ data' = formattedData(rawList(body).list)
        /\ pc' = "loaded"
        /\ response' = Parsed(body)
    /\ UNCHANGED <<loading, error, filterDate, filterStation, fetches>>
    /\ UNCHANGED scoreVars

\* .then(jsonData => { ...; setData(formattedData); setLoading(false); })
FetchResolves ==
    /\ pc = "pending"
    /\ \E body \in Bodies :
        /\ ~rawList(body).threw
        /\ data' = formattedData(rawList(body).list)
        /\ loading' = FALSE
        /\ pc' = "loaded"
        /\ response' = Parsed(body)
    /\ UNCHANGED <<error, filterDate, filterStation, fetches>>
    /\ UNCHANGED scoreVars

-----------------------------------------------------------------------------
(* Filter Engine *)

\* the filter section is rendered unless loading, or no data and no error
FilterSectionShown == ~loading /\ ~(Len(data) = 0 /\ error = NoError)

\* values of the date <option>s: 'All' and each distinct date
dates == {"All"} \cup {data[i].date : i \in 1..Len(data)}

\* values of the station <option>s: 'All' and the text of each distinct station
stations == {All} \cup {StringOf(data[i].station) : i \in 1..Len(data)}

\* onChange={(e) => setFilterDate(e.target.value)}
SetFilterDate ==
    /\ FilterSectionShown
    /\ \E v \in dates : filterDate' = v
    /\ UNCHANGED <<data, loading, error, filterStation, pc, fetches, response>>
    /\ UNCHANGED scoreVars

\* onChange={(e) => setFilterStation(e.target.value)}
SetFilterStation ==
    /\ FilterSectionShown
    /\ \E v \in stations : filterStation' = v
    /\ UNCHANGED <<data, loading, error, filterDate, pc, fetches, response>>
    /\ UNCHANGED scoreVars

\* filterDate === 'All' || item.date === filterDate
dateMatch(item) == filterDate = "All" \/ item.date = filterDate

\* filterStation === 'All' || item.station === parseInt(filterStation)
stationMatch(item) ==
    filterStation = All \/ StrictEq(item.station, ParseInt(Str(filterStation)))

\* data.filter(item => dateMatch && stationMatch)
filteredData ==
    SelectSeq(data, LAMBDA item : dateMatch(item) /\ stationMatch(item))

-----------------------------------------------------------------------------
(* Number formatting *)

\* the digits of k, padded with zeros on the left to the given width
RECURSIVE PadDigits(_, _)
PadDigits(k, width) ==
    IF width = 0 THEN <<>>
    ELSE PadDigits(k \div 10, width - 1) \o <<DigitChars[(k % 10) + 1]>>

\* toFixed cutting the digits past the last one kept instead of rounding
ToFixed_Truncate(num, den, digits) ==
    LET unit == Pow10(digits)
        m == (Abs(num) * unit) \div (den * Scale)
    IN  (IF num < 0 THEN <<"-">> ELSE <<>>)
        \o NatToChars(m \div unit)
        \o (IF digits = 0 THEN <<>> ELSE <<".">> \o PadDigits(m % unit, digits))

\* (num / den).toFixed(digits), num in units of 1 / Scale and den > 0: the
\* nearest multiple of 10^-digits, the larger one on a tie, sign in front
ToFixed(num, den, digits) ==
    LET unit == Pow10(digits)
        m == (2 * Abs(num) * unit + den * Scale) \div (2 * den * Scale)
    IN  (IF num < 0 THEN <<"-">> ELSE <<>>)
        \o NatToChars(m \div unit)
        \o (IF digits = 0 THEN <<>> ELSE <<".">> \o PadDigits(m % unit, digits))

\* Math.round(v): the nearest integer, the larger one on a tie
MathRound(v) == (2 * v.n + Scale) \div (2 * Scale)

\* v || 0
OrZero(v) == IF Truthy(v) THEN v ELSE Int_(0)

-----------------------------------------------------------------------------
(* Metrics Aggregator *)

\* list.reduce((acc, cur) => acc + (cur[`q${i}`] || 0), 0), in units of 1 / Scale
RECURSIVE qSum(_, _)
qSum(list, i) ==
    IF list = <<>> THEN 0
    ELSE qSum(SubSeq(list, 1, Len(list) - 1), i) + OrZero(list[Len(list)].q[i]).n

\* the forEach of stats: every q1..q8 of every record added up
RECURSIVE totalScoreSum(_)
totalScoreSum(list) ==
    IF list = <<>> THEN 0
    ELSE LET item == list[Len(list)]
             RECURSIVE row(_)
             row(i) == IF i = 0 THEN 0 ELSE row(i - 1) + OrZero(item.q[i]).n
         IN  totalScoreSum(SubSeq(list, 1, Len(list) - 1)) + row(QuestionCount)

\* the improvement test with <= in place of <
needsImprovement_Inclusive(sum, totalCount) == 2 * sum <= 7 * Scale * totalCount

\* qAvg < 3.5 with qAvg = totalCount ? qSum / totalCount : 0 (cross-multiplied)
needsImprovement(sum, totalCount) ==
    IF totalCount # 0 THEN 2 * sum < 7 * Scale * totalCount ELSE TRUE

\* the for loop counting the questions with qAvg < 3.5
RECURSIVE itemsToImprove(_, _)
itemsToImprove(list, i) ==
    IF i = 0 THEN 0
    ELSE itemsToImprove(list, i - 1)
         + (IF needsImprovement(qSum(list, i), Len(list)) THEN 1 ELSE 0)

stats ==
    LET totalCount == Len(filteredData)
        totalItems == QuestionCount * totalCount
    IN  IF totalCount = 0
        THEN [totalCount |-> 0, avgSatisfaction |-> Int_(0), itemsToImprove |-> 0]
        ELSE [totalCount |-> totalCount,
              avgSatisfaction |->
                  IF totalItems # 0
                  THEN Str(ToFixed(totalScoreSum(filteredData), totalItems, 1))
                  ELSE Int_(0),
              itemsToImprove |-> itemsToImprove(filteredData, QuestionCount)]

-----------------------------------------------------------------------------
(* Distribution Builder *)

Buckets == 1..5

\* the bucket test without its lower end: a rounded score of 0 or less is
\* counted in bucket 1
bucketHit_NoLowerEnd(score, b) == score = b \/ (b = 1 /\ score < 1)

\* counts[score] !== undefined, for the bucket b it increments
bucketHit(score, b) == score \in Buckets /\ score = b

\* counts after the forEach over list, for question i
RECURSIVE counts(_, _)
counts(list, i) ==
    IF list = <<>> THEN [b \in Buckets |-> 0]
    ELSE LET before == counts(SubSeq(list, 1, Len(list) - 1), i)
             score == MathRound(list[Len(list)].q[i])
         IN  [b \in Buckets |->
                 IF bucketHit(score, b) THEN before[b] + 1 ELSE before[b]]

distributionData ==
    IF Len(filteredData) = 0 THEN <<>>
    ELSE [i \in Questions |->
             [shortName |-> i,
              counts |-> counts(filteredData, i),
              total |-> Len(filteredData)]]

-----------------------------------------------------------------------------
(* Profile Builder *)

radarData ==
    IF Len(filteredData) = 0 THEN <<>>
    ELSE [i \in Questions |->
             LET sum == qSum(filteredData, i)
                 avg == IF Len(filteredData) # 0
                        THEN Str(ToFixed(sum, Len(filteredData), 2))
                        ELSE Int_(0)
             IN  [subject |-> i,
                  A |-> IF avg.t = "string" THEN ParseFloat(avg.s) ELSE avg,
                  fullMark |-> Int_(5)]]

-----------------------------------------------------------------------------
(* Feedback Extractor *)

\* { ...d, text }
WithText(d, text) ==
    [k \in DOMAIN d \cup {"text"} |-> IF k = "text" THEN text ELSE d[k]]

\* the q9 channel taking every record, whatever its text
feedbackOf_NoFilter(list, field) ==
    [i \in 1..Len(list) |-> WithText(list[i], list[i][field])]

\* list.filter(d => d[field]).map(d => ({...d, text: d[field]}))
feedbackOf(list, field) ==
    LET kept == SelectSeq(list, LAMBDA d : Truthy(d[field]))
    IN  [i \in 1..Len(kept) |-> WithText(kept[i], kept[i][field])]

feedbackQ9 == feedbackOf(filteredData, "q9")
feedbackQ10 == feedbackOf(filteredData, "q10")

Next ==
    \/ MountEffect
    \/ FetchRejects
    \/ ResponseNotOk
    \/ JsonParseFails
    \/ UnpackThrows
    \/ FetchResolves
    \/ SetFilterDate
    \/ SetFilterStation

Spec == Init /\ [][Next]_vars

-----------------------------------------------------------------------------
(* parseScore applied to arbitrary values *)

ScoreChars == {"4", "5", ".", "-", "#", "a"}

\* every text of at most k characters of ScoreChars
RECURSIVE TextsUpTo(_)
TextsUpTo(k) ==
    IF k = 0 THEN {<<>>}
    ELSE LET shorter == TextsUpTo(k - 1)
         IN  shorter \cup {Append(t, c) : t \in {x \in shorter : Len(x) = k - 1},
                                          c \in ScoreChars}

ScoreInputs ==
    {Str(t) : t \in TextsUpTo(MaxStrLen)}
    \cup {Half(k) : k \in -4..12}
    \cup {Null, Undef, Bool(TRUE), Bool(FALSE)}

InitScore ==
    /\ DashInit
    /\ scoreIn \in ScoreInputs
    /\ scoreOut = Undef
    /\ scorePc = "call"

\* a call parseScore(val)
ParseScoreCall ==
    /\ scorePc = "call"
    /\ scoreOut' = parseScore(scoreIn)
    /\ scorePc' = "done"
    /\ UNCHANGED scoreIn
    /\ UNCHANGED dashVars

NextScore == ParseScoreCall

SpecScore == InitScore /\ [][NextScore]_vars

-----------------------------------------------------------------------------
(* Properties *)

Loaded == pc = "loaded"

\* the coercion rule of the claims C1 and C2: the integer a text parses to
\* if it parses as an integer, otherwise the text itself
CoerceFilter(text) ==
    IF ParseInt(Str(text)).t = "number" THEN ParseInt(Str(text)) ELSE Str(text)

\* C1: with the date filter at All and a station filter f other than All,
\* the filtered collection is exactly the records whose normalized station
\* equals f coerced by the normalizer's rule (integer if it parses, else
\* the text itself), so choosing a station that occurs returns its records.
C1_StationFilterUsesNormalizerRule ==
    (Loaded /\ filterDate = "All" /\ filterStation # All) =>
        /\ filteredData =
              SelectSeq(data, LAMBDA item :
                  StrictEq(item.station, CoerceFilter(filterStation)))
        /\ \A k \in 1..Len(data) :
              StringOf(data[k].station) = filterStation =>
                  \E j \in 1..Len(filteredData) : filteredData[j] = data[k]

\* C2: the filtered collection is the subsequence of the snapshot, in order,
\* of exactly the records with (dateFilter = All or date = dateFilter) and
\* (stationFilter = All or station = stationFilter); it is the snapshot
\* itself when both filters are All.
C2_FilterIsExactSubsequence ==
    Loaded =>
        /\ filteredData =
              SelectSeq(data, LAMBDA item :
                  /\ (filterDate = "All" \/ item.date = filterDate)
                  /\ (filterStation = All
                      \/ item.station = CoerceFilter(filterStation)))
        /\ (filterDate = "All" /\ filterStation = All => filteredData = data)

\* C3: for a non-empty filtered collection every one of the eight profile
\* values lies in [0, 5].
C3_ProfileWithinRange ==
    Len(filteredData) > 0 =>
        \A i \in Questions :
            /\ radarData[i].A.t = "number"
            /\ 0 <= radarData[i].A.n
            /\ radarData[i].A.n <= 5 * Scale

\* the list the claim C4 says the snapshot is built from
ExpectedList(body) ==
    IF body.shape = "array" \/ (body.shape = "object" /\ body.examiner = "array")
    THEN body.list
    ELSE <<>>

\* C4: after a fetch that yields a parsed body, the snapshot is built from
\* the examiner array of an object, or from a bare array, and is empty for
\* every other shape (object without examiner, non-array value, null), with
\* loading ended and no error set.
C4_OtherShapesGiveEmptySnapshot ==
    (response.kind = "json" /\ response.body.examiner # "text") =>
        /\ Len(data) = Len(ExpectedList(response.body))
        /\ loading = FALSE
        /\ error = NoError

TransportFailures == {"rejected", "not-ok", "bad-json"}

\* C5: when the fetch rejects, is not OK or its body fails to parse, error
\* is set, loading is false and the snapshot is empty after the one fetch
\* made; error is set only from the pending state, and once set the error,
\* the empty snapshot, loading = false and the number of fetches never
\* change again.
C5_ErrorStateTerminal ==
    /\ [](response.kind \in TransportFailures =>
            /\ error # NoError
            /\ loading = FALSE
            /\ data = <<>>
            /\ fetches = 1)
    /\ [][(error = NoError /\ error' # NoError) =>
            (pc = "pending" /\ response'.kind # "none")]_vars
    /\ [][error # NoError =>
            /\ error' = error
            /\ loading' = FALSE
            /\ data' = <<>>
            /\ fetches' = fetches
            /\ pc' = "failed"]_vars

C5_Witness ==
    /\ response.kind = "bad-json"
    /\ error = FetchErrorMessage
    /\ pc = "failed"

\* the sum of question i over the records of list, in units of 1 / Scale
ScoreTotal(list, i) ==
    LET RECURSIVE from(_)
        from(k) == IF k > Len(list) THEN 0 ELSE list[k].q[i].n + from(k + 1)
    IN  from(1)

\* C6: an empty filtered collection gives totalCount = 0, avgSatisfaction = 0
\* and itemsToImprove = 0; a non-empty one gives as itemsToImprove the number
\* of questions whose mean (sum / totalCount) is strictly below 3.5.
C6_ItemsToImprove ==
    LET fd == filteredData
        st == stats
    IN  /\ Len(fd) = 0 =>
              st = [totalCount |-> 0, avgSatisfaction |-> Int_(0),
                    itemsToImprove |-> 0]
        /\ Len(fd) > 0 =>
              /\ st.totalCount = Len(fd)
              /\ st.itemsToImprove =
                    Cardinality({i \in Questions :
                        10 * ScoreTotal(fd, i) < 35 * Scale * Len(fd)})

\* two records, a question whose mean is exactly 3.5 and one below it
C6_Witness ==
    /\ Len(filteredData) = 2
    /\ \E i \in Questions :
          /\ filteredData[1].q[i] # filteredData[2].q[i]
          /\ 2 * ScoreTotal(filteredData, i) = 7 * Scale * 2
    /\ stats.itemsToImprove \in 1..7

\* x rounds half-up to the integer r
RoundsTo(x, r) == (2 * r - 1) * Scale <= 2 * x.n /\ 2 * x.n < (2 * r + 1) * Scale

RECURSIVE SumOver(_, _)
SumOver(f, S) ==
    IF S = {} THEN 0
    ELSE LET x == CHOOSE y \in S : TRUE IN f[x] + SumOver(f, S \ {x})

\* C7: for a non-empty filtered collection and every question, bucket b
\* holds the number of records whose score rounds half-up to b (1..5), the
\* other records are in no bucket, total is the size of the collection, the
\* buckets sum to at most total, and to total exactly when every record's
\* rounded score is in 1..5.
C7_Histogram ==
    LET fd == filteredData
        dd == distributionData
        n == Len(fd)
    IN  n > 0 =>
            \A i \in Questions :
                LET cs == dd[i].counts
                    sum == SumOver(cs, Buckets)
                IN  /\ dd[i].total = n
                    /\ \A b \in Buckets :
                          cs[b] = Cardinality({k \in 1..n : RoundsTo(fd[k].q[i], b)})
                    /\ sum <= dd[i].total
                    /\ (sum = dd[i].total) <=>
                          (\A k \in 1..n : \E b \in Buckets :
                              RoundsTo(fd[k].q[i], b))

\* a score of 0.5 counted in bucket 1, a question with a record in no bucket,
\* and a question with every record in a bucket
C7_Witness ==
    /\ Len(filteredData) = 2
    /\ \E k \in 1..2 :
          /\ filteredData[k].q[7] = Half(1)
          /\ distributionData[7].counts[1] >= 1
    /\ SumOver(distributionData[8].counts, Buckets) < 2
    /\ SumOver(distributionData[5].counts, Buckets) = 2

\* the text fields the claim C8 excludes: empty, zero, null, absent
NoText(v) == v \in {Str(<<>>), Int_(0), Null, Undef}

\* the positions of the records of list that have a text in field
TextPositions(list, field) == {k \in 1..Len(list) : ~NoText(list[k][field])}

\* the j-th smallest member of the set of positions P
NthPosition(P, j) == CHOOSE k \in P : Cardinality({m \in P : m <= k}) = j

\* channel holds one entry per record of list with a text in field, in the
\* order of list, each with the text and the record's examiner, station, date
IsChannelOf(channel, list, field) ==
    LET P == TextPositions(list, field)
    IN  /\ Len(channel) = Cardinality(P)
        /\ \A j \in 1..Len(channel) :
              LET d == list[NthPosition(P, j)]
              IN  /\ channel[j].text = d[field]
                  /\ channel[j].examiner = d.examiner
                  /\ channel[j].station = d.station
                  /\ channel[j].date = d.date

\* C8: each feedback channel holds exactly one entry per record of the
\* filtered collection whose q9 (q10) is truthy, none for an empty, zero,
\* null or absent field, in filtered order, each with the text and the
\* record's examiner, station and date; each channel is determined by its
\* own field alone.
C8_FeedbackChannels ==
    /\ IsChannelOf(feedbackQ9, filteredData, "q9")
    /\ IsChannelOf(feedbackQ10, filteredData, "q10")

\* the first record has only a q10 text, the second only a q9 text
C8_Witness ==
    /\ Len(filteredData) = 2
    /\ NoText(filteredData[1].q9) /\ ~NoText(filteredData[1].q10)
    /\ ~NoText(filteredData[2].q9) /\ NoText(filteredData[2].q10)
    /\ Len(feedbackQ9) = 1 /\ feedbackQ9[1].text = filteredData[2].q9
    /\ Len(feedbackQ10) = 1 /\ feedbackQ10[1].text = filteredData[1].q10

\* C9: the Record Normalizer maps the raw list to a list of the same length
\* and order; a station is the integer its raw value parses to whenever that
\* parses as an integer (0 and "0" included) and the raw value otherwise;
\* date, examiner, q9 and q10 pass through.
C9_StationIsIntegerWhenParsable ==
    (Loaded /\ response.kind = "json") =>
        LET raw == ExpectedList(response.body)
        IN  /\ Len(data) = Len(raw)
            /\ \A k \in 1..Len(data) :
                  /\ data[k].station =
                        (IF ParseInt(raw[k].station).t = "number"
                         THEN ParseInt(raw[k].station)
                         ELSE raw[k].station)
                  /\ data[k].date = raw[k].date
                  /\ data[k].examiner = raw[k].examiner
                  /\ data[k].q9 = raw[k].q9
                  /\ data[k].q10 = raw[k].q10

C11_Profile ==
    LET fd == filteredData
        rd == radarData
        n == Len(fd)
        cent == Scale \div 100
    IN  /\ n = 0 => rd = <<>>
        /\ n > 0 =>
              /\ Len(rd) = QuestionCount
              /\ \A i \in Questions :
                    /\ rd[i].subject = i
                    /\ rd[i].fullMark = Int_(5)
                    /\ rd[i].A.t = "number"
                    /\ rd[i].A.n % cent = 0
                    /\ 2 * Abs(rd[i].A.n * n - ScoreTotal(fd, i)) <= cent * n
                    /\ ScoreTotal(fd, i) = 0 => rd[i].A = Int_(0)

\* two records whose mean for some question is rounded up to two decimals
C11_Witness ==
    /\ Len(filteredData) = 2
    /\ Len(radarData) = QuestionCount
    /\ \E i \in Questions :
          radarData[i].A.n * 2 > ScoreTotal(filteredData, i)

\* every score of the collection is an integer
IntegerScores(list) ==
    \A k \in 1..Len(list) : \A i \in Questions : list[k].q[i].n % Scale = 0

\* the sum of all eight questions over the records of list
GrandTotal(list) == SumOver([i \in Questions |-> ScoreTotal(list, i)], Questions)

\* C12: for a non-empty filtered collection with integer scores,
\* avgSatisfaction is the number (sum of all scores) / (totalCount x 8)
\* rounded to one decimal place; for an empty collection it is the number 0;
\* it is a numeric value in both cases.
C12_AvgSatisfactionNumeric ==
    LET fd == filteredData
        avg == stats.avgSatisfaction
        n == Len(fd)
        tenth == Scale \div 10
    IN  /\ n = 0 => avg = Int_(0)
        /\ (n > 0 /\ IntegerScores(fd)) =>
              /\ avg.t = "number"
              /\ avg.n % tenth = 0
              /\ 2 * Abs(avg.n * n * QuestionCount - GrandTotal(fd))
                    <= tenth * n * QuestionCount

\* C13: while loading is true the snapshot is empty and error is null; a
\* non-null error implies an empty snapshot and loading false; loading is
\* true until the fetch settles, false from then on and never true again;
\* a filter change leaves the snapshot, loading and error unchanged.
C13_LoadingErrorSnapshot ==
    /\ [](loading => (data = <<>> /\ error = NoError))
    /\ [](error # NoError => (data = <<>> /\ loading = FALSE))
    /\ [](loading <=> pc \in {"mount", "pending"})
    /\ [][loading = FALSE => loading' = FALSE]_vars
    /\ [][(filterDate' # filterDate \/ filterStation' # filterStation) =>
            (data' = data /\ loading' = loading /\ error' = error)]_vars

\* the fetch has succeeded and both filters have been changed since
C13_Witness ==
    /\ pc = "loaded"
    /\ loading = FALSE
    /\ error = NoError
    /\ Len(data) = 2
    /\ filterDate # "All"
    /\ filterStation # All

=============================================================================
